---------------------------- MODULE Spec2Model ----------------------------
(***************************************************************************)
(* The Erc20 ink! contract of src/lib.rs as a state machine.               *)
(*                                                                         *)
(* State: the three storage fields of struct Erc20 (total_supply,          *)
(* balances, allowances), the log of events the environment has recorded   *)
(* (emit_event), and the last message call with the value it returned.     *)
(* Every message (transfer, transfer_from, approve) is one action: the     *)
(* contract runs one call to completion before the next one starts.        *)
(*                                                                         *)
(* Balance is u128 in the ink! default environment.  It is scaled down to  *)
(* 0..MaxBalance here; arithmetic keeps that width.  An addition whose     *)
(* result exceeds MaxBalance either panics (overflow checks on: the call   *)
(* traps and the host discards every write of that call) or wraps          *)
(* (overflow checks off); both outcomes are kept.                          *)
(***************************************************************************)
EXTENDS Integers, Sequences, FiniteSets, TLC

\* Largest value of type Balance (u128::MAX, scaled down).
MaxBalance == 2

\* The calls stop once the event log holds this many events.
MaxEvents == 2

\* AccountId values: every account can call and can be named in a call.
Accounts == {"alice", "bob"}

\* The account that instantiates the contract.
Deployer == "alice"

Balance == 0 .. MaxBalance

Modulus == MaxBalance + 1

\* What an arithmetic overflow can do, depending on the build profile.
OverflowOutcomes == {"trap", "wrap"}

\* total_supply, balances, allowances: the storage of struct Erc20.
\* events: the events recorded by the environment, oldest first.
\* deployed: the constructor call that created the contract.
\* last: the latest call and what it returned.
\* granted: per (owner, spender), the value of the owner's latest approve of
\*   that spender, 0 before the first one.
\* spent: per (owner, spender), the sum of the values of the spender's
\*   transfer_from calls out of the owner that returned Ok since that approve.
VARIABLES total_supply, balances, allowances, events, deployed, last,
          granted, spent

vars == <<total_supply, balances, allowances, events, deployed, last,
          granted, spent>>

---------------------------------------------------------------------------
(* ink::storage::Mapping: a partial map; a key is present once inserted.   *)

EmptyMapping == << >>

\* Mapping::get(key).unwrap_or_default(): an absent key reads as 0.
GetOrDefault(m, k) == IF k \in DOMAIN m THEN m[k] ELSE 0

\* Mapping::insert(key, value).
Insert(m, k, v) == [x \in (DOMAIN m) \cup {k} |-> IF x = k THEN v ELSE m[x]]

\* The events of the contract.
TransferEvent(from, to, value) ==
    [kind |-> "Transfer", from |-> from, to |-> to, value |-> value]

ApprovalEvent(from, to, value) ==
    [kind |-> "Approval", from |-> from, to |-> to, value |-> value]

\* fn balance_of(&self, owner) -> Balance
balance_of(bal, owner) == GetOrDefault(bal, owner)

\* self.allowances.get(&(from, sender)).unwrap_or_default()
allowance_of(alw, from, sender) == GetOrDefault(alw, <<from, sender>>)

\* A call and what it returned: "Ok", an Error of trait_erc20, or "Trap" when
\* the call panicked and the host reverted it.
Call(op, result) == [op |-> op, result |-> result]

---------------------------------------------------------------------------
(* fn transfer_helper(&mut self, from, to, value) -> Result<()>            *)
(* The set of outcomes of the call on balances bal and event log ev: each  *)
(* outcome is the result with the balances and the log it leaves.          *)

\* transfer_helper that rejects value == balance_from as well.
transfer_helper_OffByOne(bal, ev, from, to, value) ==
    LET balance_from == balance_of(bal, from)
        balance_to   == balance_of(bal, to)
        afterFrom    == Insert(bal, from, balance_from - value)
        done(sum)    == [result   |-> "Ok",
                         balances |-> Insert(afterFrom, to, sum),
                         events   |-> Append(ev, TransferEvent(from, to, value))]
        trapped      == [result |-> "Trap", balances |-> bal, events |-> ev]
    IN  IF balance_from <= value
        THEN {[result |-> "BalanceTooLow", balances |-> bal, events |-> ev]}
        ELSE IF balance_to + value > MaxBalance
             THEN {IF o = "trap" THEN trapped
                                 ELSE done((balance_to + value) % Modulus)
                   : o \in OverflowOutcomes}
             ELSE {done(balance_to + value)}

\* transfer_helper with the event emitted before the balance check.
transfer_helper_EmitsFirst(bal, ev, from, to, value) ==
    LET balance_from == balance_of(bal, from)
        balance_to   == balance_of(bal, to)
        emitted      == Append(ev, TransferEvent(from, to, value))
        afterFrom    == Insert(bal, from, balance_from - value)
        done(sum)    == [result   |-> "Ok",
                         balances |-> Insert(afterFrom, to, sum),
                         events   |-> emitted]
        trapped      == [result |-> "Trap", balances |-> bal, events |-> ev]
    IN  IF balance_from < value
        THEN {[result |-> "BalanceTooLow", balances |-> bal,
               events |-> emitted]}
        ELSE IF balance_to + value > MaxBalance
             THEN {IF o = "trap" THEN trapped
                                 ELSE done((balance_to + value) % Modulus)
                   : o \in OverflowOutcomes}
             ELSE {done(balance_to + value)}

transfer_helper(bal, ev, from, to, value) ==
    LET balance_from == balance_of(bal, from)
        balance_to   == balance_of(bal, to)
        afterFrom    == Insert(bal, from, balance_from - value)
        done(sum)    == [result   |-> "Ok",
                         balances |-> Insert(afterFrom, to, sum),
                         events   |-> Append(ev, TransferEvent(from, to, value))]
        trapped      == [result |-> "Trap", balances |-> bal, events |-> ev]
    IN  IF balance_from < value
        THEN {[result |-> "BalanceTooLow", balances |-> bal, events |-> ev]}
        ELSE IF balance_to + value > MaxBalance
             THEN {IF o = "trap" THEN trapped
                                 ELSE done((balance_to + value) % Modulus)
                   : o \in OverflowOutcomes}
             ELSE {done(balance_to + value)}

---------------------------------------------------------------------------
(* Erc20::new(total_supply), called by caller.                             *)

\* new with a Transfer event for the minted supply.
new_EmitsTransfer(supply, caller) ==
    /\ total_supply = supply
    /\ balances = Insert(EmptyMapping, caller, supply)
    /\ allowances = EmptyMapping
    /\ events = <<TransferEvent("None", caller, supply)>>
    /\ deployed = [caller |-> caller, total_supply |-> supply]
    /\ last = Call("new", "Ok")

new(supply, caller) ==
    /\ total_supply = supply
    /\ balances = Insert(EmptyMapping, caller, supply)
    /\ allowances = EmptyMapping
    /\ events = << >>
    /\ deployed = [caller |-> caller, total_supply |-> supply]
    /\ last = Call("new", "Ok")

\* Nothing granted and nothing spent for any (owner, spender).
NoAmounts == [p \in Accounts \X Accounts |-> 0]

Init ==
    /\ \E supply \in Balance : new(supply, Deployer)
    /\ granted = NoAmounts
    /\ spent = NoAmounts

\* transfer that takes the amount sent to the sender itself out of the supply.
transfer_AdjustsSupply(sender, to, value) ==
    /\ \E out \in transfer_helper(balances, events, sender, to, value) :
          /\ balances' = out.balances
          /\ events' = out.events
          /\ last' = Call("transfer", out.result)
          /\ total_supply' = IF out.result = "Ok" /\ to = sender
                             THEN total_supply - value
                             ELSE total_supply
    /\ UNCHANGED <<allowances, deployed>>

(* fn transfer(&mut self, to, value) -> Result<()>, called by sender.      *)
transfer(sender, to, value) ==
    /\ \E out \in transfer_helper(balances, events, sender, to, value) :
          /\ balances' = out.balances
          /\ events' = out.events
          /\ last' = Call("transfer", out.result)
    /\ UNCHANGED <<total_supply, allowances, deployed>>

\* transfer_from with the allowance read under the key (sender, from).
transfer_from_SwappedKey(sender, from, to, value) ==
    /\ LET allowance == allowance_of(allowances, sender, from)
       IN  IF allowance < value
           THEN /\ last' = Call("transfer_from", "AllowanceTooLow")
                /\ UNCHANGED <<balances, allowances, events>>
           ELSE \E out \in transfer_helper(balances, events, from, to, value) :
                   /\ allowances' =
                         IF out.result = "Trap"
                         THEN allowances
                         ELSE Insert(allowances, <<sender, from>>,
                                     allowance - value)
                   /\ balances' = out.balances
                   /\ events' = out.events
                   /\ last' = Call("transfer_from", out.result)
    /\ UNCHANGED <<total_supply, deployed>>

\* transfer_from with a saturating decrement in place of the allowance check.
transfer_from_Saturating(sender, from, to, value) ==
    /\ LET allowance == allowance_of(allowances, from, sender)
       IN  \E out \in transfer_helper(balances, events, from, to, value) :
              /\ allowances' =
                    IF out.result = "Trap"
                    THEN allowances
                    ELSE Insert(allowances, <<from, sender>>,
                                IF allowance < value THEN 0
                                                     ELSE allowance - value)
              /\ balances' = out.balances
              /\ events' = out.events
              /\ last' = Call("transfer_from", out.result)
    /\ UNCHANGED <<total_supply, deployed>>

\* transfer_from whose Transfer event names the spender as the source.
transfer_from_EmitsSpender(sender, from, to, value) ==
    /\ LET allowance == allowance_of(allowances, from, sender)
       IN  IF allowance < value
           THEN /\ last' = Call("transfer_from", "AllowanceTooLow")
                /\ UNCHANGED <<balances, allowances, events>>
           ELSE \E out \in transfer_helper(balances, events, from, to, value) :
                   /\ allowances' =
                         IF out.result = "Trap"
                         THEN allowances
                         ELSE Insert(allowances, <<from, sender>>,
                                     allowance - value)
                   /\ balances' = out.balances
                   /\ events' =
                         IF out.result = "Ok"
                         THEN Append(events, TransferEvent(sender, to, value))
                         ELSE out.events
                   /\ last' = Call("transfer_from", out.result)
    /\ UNCHANGED <<total_supply, deployed>>

\* transfer_from that writes the allowance only when the balance move succeeds.
transfer_from_Atomic(sender, from, to, value) ==
    /\ LET allowance == allowance_of(allowances, from, sender)
       IN  IF allowance < value
           THEN /\ last' = Call("transfer_from", "AllowanceTooLow")
                /\ UNCHANGED <<balances, allowances, events>>
           ELSE \E out \in transfer_helper(balances, events, from, to, value) :
                   /\ allowances' =
                         IF out.result = "Ok"
                         THEN Insert(allowances, <<from, sender>>,
                                     allowance - value)
                         ELSE allowances
                   /\ balances' = out.balances
                   /\ events' = out.events
                   /\ last' = Call("transfer_from", out.result)
    /\ UNCHANGED <<total_supply, deployed>>

(* fn transfer_from(&mut self, from, to, value) -> Result<()>, called by   *)
(* sender.                                                                 *)
transfer_from(sender, from, to, value) ==
    /\ LET allowance == allowance_of(allowances, from, sender)
       IN  IF allowance < value
           THEN /\ last' = Call("transfer_from", "AllowanceTooLow")
                /\ UNCHANGED <<balances, allowances, events>>
           ELSE \E out \in transfer_helper(balances, events, from, to, value) :
                   /\ allowances' =
                         IF out.result = "Trap"
                         THEN allowances
                         ELSE Insert(allowances, <<from, sender>>,
                                     allowance - value)
                   /\ balances' = out.balances
                   /\ events' = out.events
                   /\ last' = Call("transfer_from", out.result)
    /\ UNCHANGED <<total_supply, deployed>>

\* approve that sets the allowance in both directions.
approve_BothWays(sender, to, value) ==
    /\ allowances' = Insert(Insert(allowances, <<sender, to>>, value),
                            <<to, sender>>, value)
    /\ events' = Append(events, ApprovalEvent(sender, to, value))
    /\ last' = Call("approve", "Ok")
    /\ UNCHANGED <<total_supply, balances, deployed>>

\* approve that adds value to the allowance instead of setting it.
approve_Additive(sender, to, value) ==
    /\ allowances' = Insert(allowances, <<sender, to>>,
                            allowance_of(allowances, sender, to) + value)
    /\ events' = Append(events, ApprovalEvent(sender, to, value))
    /\ last' = Call("approve", "Ok")
    /\ UNCHANGED <<total_supply, balances, deployed>>

(* fn approve(&mut self, to, value) -> Result<()>, called by sender.       *)
approve(sender, to, value) ==
    /\ allowances' = Insert(allowances, <<sender, to>>, value)
    /\ events' = Append(events, ApprovalEvent(sender, to, value))
    /\ last' = Call("approve", "Ok")
    /\ UNCHANGED <<total_supply, balances, deployed>>

---------------------------------------------------------------------------
(* The environment: any caller issues any message with any arguments, one  *)
(* call at a time.                                                         *)

DoTransfer ==
    \E sender \in Accounts, to \in Accounts, value \in Balance :
        /\ transfer(sender, to, value)
        /\ UNCHANGED <<granted, spent>>

DoTransferFrom ==
    \E sender \in Accounts, from \in Accounts, to \in Accounts,
       value \in Balance :
        /\ transfer_from(sender, from, to, value)
        /\ spent' = IF last'.result = "Ok"
                    THEN [spent EXCEPT ![<<from, sender>>] = @ + value]
                    ELSE spent
        /\ UNCHANGED granted

DoApprove ==
    \E sender \in Accounts, to \in Accounts, value \in Balance :
        /\ approve(sender, to, value)
        /\ granted' = [granted EXCEPT ![<<sender, to>>] = value]
        /\ spent' = [spent EXCEPT ![<<sender, to>>] = 0]

\* Calls are issued while the event log holds fewer than limit events.
Transfers(limit) == Len(events) < limit /\ DoTransfer

TransferFroms(limit) == Len(events) < limit /\ DoTransferFrom

Approves(limit) == Len(events) < limit /\ DoApprove

Next ==
    \/ Transfers(MaxEvents)
    \/ TransferFroms(MaxEvents)
    \/ Approves(MaxEvents)

Spec == Init /\ [][Next]_vars

\* The same calls with room for two more events in the log.
DeepNext ==
    \/ Transfers(MaxEvents + 2)
    \/ TransferFroms(MaxEvents + 2)
    \/ Approves(MaxEvents + 2)

DeepSpec == Init /\ [][DeepNext]_vars

---------------------------------------------------------------------------
(* Properties.                                                             *)

RECURSIVE SumOver(_, _)
SumOver(bal, accounts) ==
    IF accounts = {} THEN 0
    ELSE LET a == CHOOSE x \in accounts : TRUE
         IN  balance_of(bal, a) + SumOver(bal, accounts \ {a})

\* The sum over all accounts of balance_of(account).
SumOfBalances(bal) == SumOver(bal, Accounts)

\* C1: in every reachable state the balances of all accounts add up to the
\* total supply fixed at construction.
Conservation == SumOfBalances(balances) = deployed.total_supply

\* C2: a transfer by a sender whose balance is below value returns
\* BalanceTooLow and leaves every balance, every allowance and the event log
\* as they were.
FailedTransferChangesNothing ==
    [][\A sender \in Accounts, to \in Accounts, value \in Balance :
          (balance_of(balances, sender) < value /\ transfer(sender, to, value))
          => /\ last'.result = "BalanceTooLow"
             /\ balances' = balances
             /\ allowances' = allowances
             /\ events' = events]_vars

\* A transfer has just failed on the balance while tokens are in circulation
\* and the log already holds an event.
FailedTransferSeen ==
    /\ last.op = "transfer"
    /\ last.result = "BalanceTooLow"
    /\ events # << >>
    /\ \E a \in Accounts : balance_of(balances, a) > 0

\* C3: a transfer of value <= balance_of(sender) to another account returns
\* Ok, takes exactly value from the sender, gives exactly value to the
\* recipient, leaves every other balance and leaves the allowances alone.
TransferMovesExactlyValue ==
    [][\A sender \in Accounts, to \in Accounts, value \in Balance :
          (/\ to # sender
           /\ value <= balance_of(balances, sender)
           /\ transfer(sender, to, value))
          => /\ last'.result = "Ok"
             /\ balance_of(balances', sender)
                   = balance_of(balances, sender) - value
             /\ balance_of(balances', to) = balance_of(balances, to) + value
             /\ \A a \in Accounts \ {sender, to} :
                   balance_of(balances', a) = balance_of(balances, a)
             /\ allowances' = allowances]_vars

\* C4: a transfer of the sender's entire balance, to any recipient, returns
\* Ok and leaves the sender with a balance of 0.
TransferBoundary ==
    [][\A sender \in Accounts, to \in Accounts :
          transfer(sender, to, balance_of(balances, sender))
          => /\ last'.result = "Ok"
             /\ balance_of(balances', sender) = 0]_vars

\* C5: a transfer_from by a spender whose allowance from the owner is below
\* value returns AllowanceTooLow, whatever the owner's balance, and leaves
\* every balance, every allowance and the event log as they were.
LowAllowanceRejected ==
    [][\A sender \in Accounts, from \in Accounts, to \in Accounts,
          value \in Balance :
          (/\ allowance_of(allowances, from, sender) < value
           /\ transfer_from(sender, from, to, value))
          => /\ last'.result = "AllowanceTooLow"
             /\ balances' = balances
             /\ allowances' = allowances
             /\ events' = events]_vars

\* A transfer_from has just been rejected for its allowance while some
\* allowance is granted and the owner could have paid.
LowAllowanceSeen ==
    /\ last.op = "transfer_from"
    /\ last.result = "AllowanceTooLow"
    /\ \E k \in DOMAIN allowances : allowances[k] > 0
    /\ \E a \in Accounts : balance_of(balances, a) = MaxBalance

\* C6: a transfer_from of v by a spender with allowance >= v from an owner
\* with balance >= v, to an account other than the owner, returns Ok, lowers
\* the allowance by v, takes v from the owner and gives v to the recipient.
DelegatedSpendDecrements ==
    [][\A sender \in Accounts, from \in Accounts, to \in Accounts,
          value \in Balance :
          (/\ to # from
           /\ allowance_of(allowances, from, sender) >= value
           /\ balance_of(balances, from) >= value
           /\ transfer_from(sender, from, to, value))
          => /\ last'.result = "Ok"
             /\ allowance_of(allowances', from, sender)
                   = allowance_of(allowances, from, sender) - value
             /\ balance_of(balances', from) = balance_of(balances, from) - value
             /\ balance_of(balances', to) = balance_of(balances, to) + value]_vars

\* C7: approve is enabled in every state for every spender and value, returns
\* Ok, and leaves the allowance of (owner, spender) equal to value whatever it
\* was before.
ApproveOverwrites ==
    /\ [](\A sender \in Accounts, to \in Accounts, value \in Balance :
             ENABLED approve(sender, to, value))
    /\ [][\A sender \in Accounts, to \in Accounts, value \in Balance :
             approve(sender, to, value)
             => /\ last'.result = "Ok"
                /\ allowance_of(allowances', sender, to) = value]_vars

\* Two approvals of the same spender by the same owner, the first one nonzero
\* and the second one different, have left the second value.
ApproveOverwriteSeen ==
    /\ last.op = "approve"
    /\ Len(events) = 2
    /\ events[1].kind = "Approval"
    /\ events[2].kind = "Approval"
    /\ events[1].from = events[2].from
    /\ events[1].to = events[2].to
    /\ events[1].value > 0
    /\ events[1].value # events[2].value
    /\ allowance_of(allowances, events[2].from, events[2].to) = events[2].value

\* C8: in every reachable state every balance lies between 0 and total_supply.
BalancesWithinSupply ==
    \A a \in Accounts :
        /\ balance_of(balances, a) >= 0
        /\ balance_of(balances, a) <= total_supply

\* C9: after any calls, successful or failed, total_supply is the value that
\* was passed to new.
TotalSupplyFixed == total_supply = deployed.total_supply

\* A nonzero supply after a successful call followed by a failed one.
SupplyAfterCalls ==
    /\ deployed.total_supply > 0
    /\ events # << >>
    /\ last.result \notin {"Ok", "Trap"}

\* C10: right after new(total_supply) the minter holds total_supply, every
\* other account holds 0, every allowance is 0 and the event log is empty; the
\* first event recorded is the one of the first successful mutating call.
InitialState ==
    /\ [](last.op = "new"
          => /\ total_supply = deployed.total_supply
             /\ balance_of(balances, deployed.caller) = deployed.total_supply
             /\ \A a \in Accounts \ {deployed.caller} :
                   balance_of(balances, a) = 0
             /\ \A owner \in Accounts, spender \in Accounts :
                   allowance_of(allowances, owner, spender) = 0
             /\ events = << >>)
    /\ [][(events = << >> /\ events' # << >>)
          => /\ last'.result = "Ok"
             /\ last'.op \in {"transfer", "transfer_from", "approve"}
             /\ Len(events') = 1
             /\ events'[1].kind = IF last'.op = "approve" THEN "Approval"
                                                           ELSE "Transfer"]_vars

\* The ledger right after construction with a nonzero supply.
FreshLedger ==
    /\ last.op = "new"
    /\ deployed.total_supply = MaxBalance
    /\ balance_of(balances, Deployer) = MaxBalance

\* C11: a transfer or transfer_from that returns Ok appends exactly one
\* Transfer(from, to, value) with the call's source, destination and amount,
\* an approve appends exactly one Approval(owner, spender, value), and a call
\* that does not return Ok appends nothing.
NotificationsMirrorCalls ==
    [][/\ last'.op = "transfer" =>
          \A sender \in Accounts, to \in Accounts, value \in Balance :
             transfer(sender, to, value)
             => events' = IF last'.result = "Ok"
                          THEN Append(events, TransferEvent(sender, to, value))
                          ELSE events
       /\ last'.op = "transfer_from" =>
          \A sender \in Accounts, from \in Accounts, to \in Accounts,
             value \in Balance :
             transfer_from(sender, from, to, value)
             => events' = IF last'.result = "Ok"
                          THEN Append(events, TransferEvent(from, to, value))
                          ELSE events
       /\ last'.op = "approve" =>
          \A sender \in Accounts, to \in Accounts, value \in Balance :
             approve(sender, to, value)
             => /\ last'.result = "Ok"
                /\ events' = Append(events, ApprovalEvent(sender, to, value))
      ]_vars

\* An approval of a nonzero amount followed by a successful transfer_from out
\* of the approving account: the log holds the two events in that order.
NotificationsSeen ==
    /\ last.op = "transfer_from"
    /\ last.result = "Ok"
    /\ Len(events) = 2
    /\ events[1].kind = "Approval"
    /\ events[1].value > 0
    /\ events[2].kind = "Transfer"
    /\ events[2].from = events[1].from
    /\ events[2].value > 0

\* C12: a transfer from an account to itself of value <= its balance, through
\* transfer or through transfer_from with enough allowance, returns Ok, leaves
\* the balance as it was and emits a Transfer event.
SelfTransferIsNoOp ==
    [][/\ \A a \in Accounts, value \in Balance :
             (balance_of(balances, a) >= value /\ transfer(a, a, value))
             => /\ last'.result = "Ok"
                /\ balance_of(balances', a) = balance_of(balances, a)
                /\ events' = Append(events, TransferEvent(a, a, value))
       /\ \A sender \in Accounts, a \in Accounts, value \in Balance :
             (/\ balance_of(balances, a) >= value
              /\ allowance_of(allowances, a, sender) >= value
              /\ transfer_from(sender, a, a, value))
             => /\ last'.result = "Ok"
                /\ balance_of(balances', a) = balance_of(balances, a)
                /\ events' = Append(events, TransferEvent(a, a, value))
      ]_vars

\* C13: a transfer_from with allowance >= value from an owner whose balance is
\* below value returns BalanceTooLow, leaves the balances and the event log as
\* they were, and leaves the allowance of (from, spender) reduced by value.
AllowanceConsumedOnFailure ==
    [][\A sender \in Accounts, from \in Accounts, to \in Accounts,
          value \in Balance :
          (/\ allowance_of(allowances, from, sender) >= value
           /\ balance_of(balances, from) < value
           /\ transfer_from(sender, from, to, value))
          => /\ last'.result = "BalanceTooLow"
             /\ balances' = balances
             /\ events' = events
             /\ allowance_of(allowances', from, sender)
                   = allowance_of(allowances, from, sender) - value]_vars

\* The only event is an approval, a transfer_from has just failed on the
\* balance, and the approved allowance is now below the approved amount.
AllowanceConsumedSeen ==
    /\ last.op = "transfer_from"
    /\ last.result = "BalanceTooLow"
    /\ Len(events) = 1
    /\ events[1].kind = "Approval"
    /\ allowance_of(allowances, events[1].from, events[1].to) < events[1].value

\* C14: in every reachable state and for every call, balance_from - value and
\* allowance - value are never negative and balance_to + value never exceeds
\* the largest Balance, so no call traps or wraps and every stored amount is a
\* Balance.
ArithmeticNeverOverflows ==
    /\ \A from \in Accounts, to \in Accounts, value \in Balance :
          /\ balance_of(balances, from) >= value
             => balance_of(balances, to) + value <= MaxBalance
          /\ \A out \in transfer_helper(balances, events, from, to, value) :
                out.result # "Trap"
    /\ \A a \in DOMAIN balances : balances[a] \in Balance
    /\ \A k \in DOMAIN allowances : allowances[k] \in Balance

\* C15: across a call the balance of an account A decreases only if the call
\* is a transfer issued by A or a transfer_from out of A issued by a spender
\* whose allowance from A was at least the value.
AuthorizedSpending ==
    [][\A A \in Accounts :
          balance_of(balances', A) < balance_of(balances, A)
          => \/ \E to \in Accounts, value \in Balance :
                   transfer(A, to, value)
             \/ \E sender \in Accounts, to \in Accounts, value \in Balance :
                   /\ allowance_of(allowances, A, sender) >= value
                   /\ transfer_from(sender, A, to, value)]_vars

OtherAllowancesKept(owner, spender) ==
    \A o \in Accounts, s \in Accounts :
        <<o, s>> # <<owner, spender>>
        => allowance_of(allowances', o, s) = allowance_of(allowances, o, s)

\* Every balance reads the same after the step as before it.
BalancesKept ==
    \A a \in Accounts : balance_of(balances', a) = balance_of(balances, a)

\* C17: a transfer_from by spender out of from, whatever it returns, changes no
\* allowance entry other than (from, spender); a transfer changes no allowance
\* entry; an approve of spender by owner changes only the entry (owner,
\* spender) and leaves every balance and total_supply as they were.
AllowanceFrame ==
    [][/\ last'.op = "transfer_from" =>
          \A sender \in Accounts, from \in Accounts, to \in Accounts,
             value \in Balance :
             transfer_from(sender, from, to, value)
             => OtherAllowancesKept(from, sender)
       /\ last'.op = "transfer" =>
          \A sender \in Accounts, to \in Accounts, value \in Balance :
             transfer(sender, to, value)
             => \A o \in Accounts, s \in Accounts :
                   allowance_of(allowances', o, s)
                      = allowance_of(allowances, o, s)
       /\ last'.op = "approve" =>
          \A sender \in Accounts, to \in Accounts, value \in Balance :
             approve(sender, to, value)
             => /\ OtherAllowancesKept(sender, to)
                /\ BalancesKept
                /\ total_supply' = total_supply
      ]_vars

\* After two nonzero approvals of different (owner, spender) pairs, the entry
\* of the first pair still reads as it was approved.
AllowanceFrameSeen ==
    /\ last.op = "approve"
    /\ Len(events) = 2
    /\ events[1].kind = "Approval"
    /\ events[2].kind = "Approval"
    /\ <<events[1].from, events[1].to>> # <<events[2].from, events[2].to>>
    /\ events[1].value > 0
    /\ events[2].value > 0
    /\ allowance_of(allowances, events[1].from, events[1].to) = events[1].value
    /\ allowance_of(allowances, events[2].from, events[2].to) = events[2].value

\* C18: in every state transfer(to, 0) and transfer_from(from, to, 0) can be
\* called by any caller, return Ok, leave every balance and every allowance
\* reading as before, and append a Transfer event with value 0.
ZeroValueSucceeds ==
    /\ [](/\ \A sender \in Accounts, to \in Accounts :
                ENABLED transfer(sender, to, 0)
          /\ \A sender \in Accounts, from \in Accounts, to \in Accounts :
                ENABLED transfer_from(sender, from, to, 0))
    /\ [][/\ last'.op = "transfer" =>
             \A sender \in Accounts, to \in Accounts :
                transfer(sender, to, 0)
                => /\ last'.result = "Ok"
                   /\ BalancesKept
                   /\ \A o \in Accounts, s \in Accounts :
                         allowance_of(allowances', o, s)
                            = allowance_of(allowances, o, s)
                   /\ events' = Append(events, TransferEvent(sender, to, 0))
          /\ last'.op = "transfer_from" =>
             \A sender \in Accounts, from \in Accounts, to \in Accounts :
                transfer_from(sender, from, to, 0)
                => /\ last'.result = "Ok"
                   /\ BalancesKept
                   /\ \A o \in Accounts, s \in Accounts :
                         allowance_of(allowances', o, s)
                            = allowance_of(allowances, o, s)
                   /\ events' = Append(events, TransferEvent(from, to, 0))
         ]_vars

\* A transfer_from of 0 has just succeeded out of an account that holds
\* nothing and has approved nobody.
ZeroValueSeen ==
    /\ last.op = "transfer_from"
    /\ last.result = "Ok"
    /\ events # << >>
    /\ LET e == events[Len(events)]
       IN  /\ e.kind = "Transfer"
           /\ e.value = 0
           /\ e.from # e.to
           /\ balance_of(balances, e.from) = 0
           /\ \A s \in Accounts : granted[<<e.from, s>>] = 0

=============================================================================
